---- MODULE Spec2Model ----
(***************************************************************************)
(* Model of the PDF order extractor backend (src/src/api.py and helpers)   *)
(* and of the dummy third-party commerce service (src/dummy/dummy.py).     *)
(*                                                                         *)
(* Two specifications:                                                     *)
(*   Spec       the backend: request handlers interleaved on one event     *)
(*              loop, one action per run of a handler between two of its   *)
(*              suspension points (await) that touch shared state;         *)
(*   SpecDummy  the dummy service's handlers applied to arbitrary bounded  *)
(*              requests, well-formed or not.                              *)
(***************************************************************************)
EXTENDS Integers, Sequences, FiniteSets, TLC

VARIABLES
    orders,    \* backend: rows of the Order table, in creation order
    items,     \* backend: rows of the Item table, in creation order
    files,     \* backend: ids of the files present in uploads/
    ereq,      \* backend: extract-order requests that saved a file, by id
    vreq,      \* backend: verify requests that reached the third party, by id
    last,      \* backend: the response of a handler that ran without
               \*          suspending, until it is written out
    tpCount,   \* third party: number of order ids it has drawn
    dreq,      \* dummy service: the request most recently handled
    dresp      \* dummy service: its answer

vars == <<orders, items, files, ereq, vreq, last, tpCount, dreq, dresp>>

(***************************************************************************)
(* Bounds of the model.                                                    *)
(***************************************************************************)
\* extract-order requests that get as far as saving their file
MaxExtract == 1
\* verify requests that get as far as calling the third party
MaxVerify == 1
\* lines of a request sent directly to the dummy service
MaxLines == 2
\* largest quantity of a line
MaxQty == 2

(***************************************************************************)
(* Python values. TLC compares only values of one kind, so None has one    *)
(* encoding among texts and one among numbers.                             *)
(***************************************************************************)
\* None where a text is expected.
None == "<None>"
\* None where a number is expected.
NoneNum == 0 - 1
\* A key that is absent from a dict, where a number is expected.
MissingNum == 0 - 2
\* A local variable that is not bound yet.
Unbound == "<unbound>"
\* The empty dict {} (and a payload that is None: both are falsy).
EmptyDict == <<>>

\* d.get(k, default) on a dict modelled as a record.
Get(d, k, default) == IF k \in DOMAIN d THEN d[k] ELSE default

\* Python truthiness of a text, of a number, of a dict.
TruthyText(v) == v \notin {None, ""}
TruthyNum(v) == v \notin {NoneNum, 0}
TruthyDict(d) == DOMAIN d # {}

\* str(v) of a text or None: None prints as the text "None".
Str(v) == IF v = None THEN "None" ELSE v

\* int(v or 0) and float(v or 0.0) (api.py:286-287) on a number or None.
IntOr0(v) == IF TruthyNum(v) THEN v ELSE 0
FloatOr0(v) == IF TruthyNum(v) THEN v ELSE 0

\* Decimal numerals: str(n) of a small integer and int(s) of a numeral;
\* int of any other text raises, which NoneNum stands for.
Numerals == <<"1", "2", "3", "4", "5", "6", "7", "8", "9">>
StrOfInt(n) == Numerals[n]
IntOfStr(s) ==
    IF \E n \in DOMAIN Numerals : Numerals[n] = s
    THEN CHOOSE n \in DOMAIN Numerals : Numerals[n] = s
    ELSE NoneNum

\* The sequences over S of length at most n.
SeqsUpTo(S, n) == UNION {[1..k -> S] : k \in 0..n}

(***************************************************************************)
(* The dummy third-party service (src/dummy/dummy.py).                     *)
(***************************************************************************)
\* Barcodes that occur in requests: two of the catalog, one unknown.
Barcodes == {"b1", "b2", "bx"}

\* products.json as loaded by add_order: barcode -> product.
Products ==
    [b \in {"b1", "b2"} |->
        IF b = "b1"
        THEN [MaterialID |-> "M001", ProductName |-> "Product A", CurrentPrice |-> 10]
        ELSE [MaterialID |-> "M002", ProductName |-> "Product B", CurrentPrice |-> 25]]

\* product_data.get(barcode, None), and whether it is truthy.
HasProduct(barcode) == barcode \in DOMAIN Products
ProductInfo(barcode) == Products[barcode]

\* One element of OrderRequest.orders. isDict = FALSE is an element that is
\* not a dict (order.get raises); a dict may lack "quantity" (MissingNum) or
\* carry null for either key.
DummyLines ==
      [isDict : {TRUE}, name : {"doc name"},
       barcode : Barcodes \cup {None}, quantity : (1..MaxQty) \cup {NoneNum, MissingNum}]
 \cup {[isDict |-> FALSE, name |-> None, barcode |-> None, quantity |-> NoneNum]}

\* A line is well-formed when it is a dict with a text barcode and an integer
\* quantity.
WellFormedLine(l) == l.isDict /\ l.barcode \in Barcodes /\ l.quantity \in 1..MaxQty

\* FoundLine with the request's quantity dropped (the default 1 reported).
FoundLineDefaultQuantity(info, barcode, quantity, unavailable) ==
    [material_id |-> info.MaterialID, barcode |-> barcode, name |-> info.ProductName,
     price |-> info.CurrentPrice, quantity |-> 1,
     status |-> IF unavailable THEN "not available" ELSE "added"]

\* The result line of a catalog hit (dummy.py:126-137).
FoundLine(info, barcode, quantity, unavailable) ==
    [material_id |-> info.MaterialID, barcode |-> barcode, name |-> info.ProductName,
     price |-> info.CurrentPrice, quantity |-> quantity,
     status |-> IF unavailable THEN "not available" ELSE "added"]

\* The result line appended after the inner try (dummy.py:142-149).
NotFoundLine(barcode, quantity) ==
    [material_id |-> None, barcode |-> barcode, name |-> None, price |-> NoneNum,
     quantity |-> quantity, status |-> "not found"]

\* The loop of add_order (dummy.py:117-149) over lines i..Len(lines). barcode
\* and quantity are the loop's local variables, which keep the previous
\* iteration's values when order.get raises; bound says whether they are
\* bound yet. rnd[i] is "random.random() < 0.1" of iteration i. ok is FALSE
\* when the append of dummy.py:142 reads an unbound local (UnboundLocalError).
RECURSIVE OrderLoop(_, _, _, _, _, _, _)
OrderLoop(lines, rnd, i, bound, barcode, quantity, result) ==
    IF i > Len(lines) THEN [ok |-> TRUE, result |-> result]
    ELSE LET order == lines[i] IN
         IF ~order.isDict
         THEN \* order.get raises AttributeError; the except passes
              IF ~bound THEN [ok |-> FALSE, result |-> <<>>]
              ELSE OrderLoop(lines, rnd, i + 1, TRUE, barcode, quantity,
                             Append(result, NotFoundLine(barcode, quantity)))
         ELSE LET b == order.barcode
                  q == IF order.quantity = MissingNum THEN 1 ELSE order.quantity
              IN  IF HasProduct(b)
                  THEN OrderLoop(lines, rnd, i + 1, TRUE, b, q,
                                 Append(result, FoundLine(ProductInfo(b), b, q, rnd[i])))
                  ELSE OrderLoop(lines, rnd, i + 1, TRUE, b, q,
                                 Append(result, NotFoundLine(b, q)))

\* TotalPrice without the status filter on catalog hits: unavailable lines
\* are summed too.
RECURSIVE TotalPriceAllFound(_)
TotalPriceAllFound(result) ==
    IF result = <<>> THEN [ok |-> TRUE, total |-> 0]
    ELSE LET o == Head(result)
             rest == TotalPriceAllFound(Tail(result))
         IN  IF o.status = "not found" THEN rest
             ELSE IF o.price = NoneNum \/ o.quantity = NoneNum \/ ~rest.ok
                  THEN [ok |-> FALSE, total |-> 0]
                  ELSE [ok |-> TRUE, total |-> o.price * o.quantity + rest.total]

\* sum(price * quantity for the lines with status "added") (dummy.py:161);
\* ok is FALSE when a factor is None (TypeError).
RECURSIVE TotalPrice(_)
TotalPrice(result) ==
    IF result = <<>> THEN [ok |-> TRUE, total |-> 0]
    ELSE LET o == Head(result)
             rest == TotalPrice(Tail(result))
         IN  IF o.status # "added" THEN rest
             ELSE IF o.price = NoneNum \/ o.quantity = NoneNum \/ ~rest.ok
                  THEN [ok |-> FALSE, total |-> 0]
                  ELSE [ok |-> TRUE, total |-> o.price * o.quantity + rest.total]

\* The "data" of add_order's answer (dummy.py:154-175); uuid is the fresh
\* uuid4. An exception anywhere in the body gives the answer of the outer
\* except.
AddOrderData(req, rnd, uuid) ==
    LET loop == OrderLoop(req.orders, rnd, 1, FALSE, Unbound, MissingNum, <<>>)
        sum == IF loop.ok THEN TotalPrice(loop.result) ELSE [ok |-> FALSE, total |-> 0]
    IN  IF sum.ok
        THEN [ms_code |-> req.ms_code, cus_id |-> req.cus_id, orders |-> loop.result,
              order_id |-> uuid, total_price |-> sum.total]
        ELSE [ms_code |-> req.ms_code, cus_id |-> req.cus_id, orders |-> <<>>,
              order_id |-> None, total_price |-> 0]

\* POST /order of the dummy service: always answered with status 200.
add_order(req, rnd, uuid) ==
    LET data == AddOrderData(req, rnd, uuid) IN
    [status_code |-> 200,
     json |-> [message |-> IF data.order_id = None THEN "Error adding orders"
                           ELSE "Orders added successfully",
               data |-> data]]

\* POST /verify of the dummy service (dummy.py:181-195): no "data" key.
dummy_verify_order(order_id) ==
    [status_code |-> 200, json |-> [order_id |-> order_id, status |-> "verified"]]

\* POST /customers of the dummy service (dummy.py:55-67).
dummy_get_customers ==
    [status_code |-> 200,
     json |-> [customers |-> <<[id |-> 1, name |-> "Customer A", cus_id |-> "C001"],
                               [id |-> 2, name |-> "Customer B", cus_id |-> "C002"]>>]]

\* str(uuid.uuid4()): the n-th identifier drawn, never drawn before.
UuidTexts == <<"uuid-1", "uuid-2", "uuid-3", "uuid-4", "uuid-5", "uuid-6">>
Uuid(n) == UuidTexts[n]

(***************************************************************************)
(* The backend's database, tokens and company configuration.               *)
(***************************************************************************)
\* The User table with each user's company relation (read by login and by
\* JWTBearer; no handler writes it). company is NoneNum for a user without
\* a company.
Users ==
    [id \in 1..5 |->
        CASE id = 1 -> [id |-> 1, name |-> "alice", password |-> "pw1", company |-> 1, ms_code |-> "MS1"]
          [] id = 2 -> [id |-> 2, name |-> "bob", password |-> "pw2", company |-> 2, ms_code |-> "MS2"]
          [] id = 3 -> [id |-> 3, name |-> "carol", password |-> "pw3", company |-> 3, ms_code |-> "MS3"]
          [] id = 4 -> [id |-> 4, name |-> "dave", password |-> "pw4", company |-> 4, ms_code |-> None]
          [] id = 5 -> [id |-> 5, name |-> "erin", password |-> "pw5", company |-> NoneNum, ms_code |-> None]]

\* The result of find_unique that found no row.
NoUser == [id |-> 0, name |-> "", password |-> "", company |-> NoneNum, ms_code |-> None]

\* client.user.find_unique(where={'id': id}) and (where={'name': name}).
FindUserById(id) == IF id \in DOMAIN Users THEN Users[id] ELSE NoUser
FindUserByName(name) ==
    IF \E id \in DOMAIN Users : Users[id].name = name
    THEN Users[CHOOSE id \in DOMAIN Users : Users[id].name = name]
    ELSE NoUser

\* configs of config.py: company id -> configuration. Company 1 is the entry
\* of the source; 2 is a second tenant with its own endpoints, 3 a tenant
\* whose api-service lists no order and no verify endpoint; company 4 has no
\* entry.
Configs ==
    [c \in 1..3 |->
        CASE c = 1 -> [api_service |-> [customers |-> "http://localhost:8002/customers",
                                        order |-> "http://localhost:8002/order",
                                        verify |-> "http://localhost:8002/verify"],
                       api_key |-> "testkey123"]
          [] c = 2 -> [api_service |-> [customers |-> "http://tenant2/customers",
                                        order |-> "http://tenant2/order",
                                        verify |-> "http://tenant2/verify"],
                       api_key |-> "key2"]
          [] c = 3 -> [api_service |-> [customers |-> "http://tenant3/customers"],
                       api_key |-> "key3"]]

\* Bearer tokens: one signed for each user id in 1..5, and one that does not
\* decode.
GoodTokens == {"tok-1", "tok-2", "tok-3", "tok-4", "tok-5"}
BadToken == "garbage"

\* signJWT(user_id) of auth_handler: the token whose payload carries user_id.
signJWT(user_id) ==
    CASE user_id = "1" -> "tok-1" [] user_id = "2" -> "tok-2" [] user_id = "3" -> "tok-3"
      [] user_id = "4" -> "tok-4" [] user_id = "5" -> "tok-5" [] OTHER -> "tok-6"

\* decodeJWT(token) of auth_handler: the payload, or a falsy value for a
\* token that is not validly signed or has expired.
decodeJWT(token) ==
    CASE token = "tok-1" -> [user_id |-> "1"] [] token = "tok-2" -> [user_id |-> "2"]
      [] token = "tok-3" -> [user_id |-> "3"] [] token = "tok-4" -> [user_id |-> "4"]
      [] token = "tok-5" -> [user_id |-> "5"] [] token = "tok-6" -> [user_id |-> "6"]
      [] OTHER -> EmptyDict

\* The Authorization header of a request: absent, or a scheme and credentials.
NoHeader == [scheme |-> "", credentials |-> ""]
Headers ==
    {NoHeader} \cup [scheme : {"Bearer"}, credentials : GoodTokens \cup {BadToken}]
    \cup [scheme : {"Basic", "bearer"}, credentials : {"tok-1"}]

\* HTTPBearer.__call__ with auto_error=True (the super call of
\* auth_bearer.py:13): the credentials, or 403 when the header is absent or
\* its scheme is not bearer in any letter case.
HTTPBearerCall(hdr) ==
    IF hdr = NoHeader
    THEN [ok |-> FALSE, status |-> 403, detail |-> "Not authenticated", token |-> ""]
    ELSE IF hdr.scheme \notin {"Bearer", "bearer"}
    THEN [ok |-> FALSE, status |-> 403, detail |-> "Invalid authentication credentials", token |-> ""]
    ELSE [ok |-> TRUE, status |-> 200, detail |-> "", token |-> hdr.credentials]

\* JWTBearer.verify_jwt
verify_jwt(jwtoken) == TruthyDict(decodeJWT(jwtoken))

\* JWTBearerCall without the scheme check of auth_bearer.py:15-16.
JWTBearerCallAnyCase(hdr) ==
    LET credentials == HTTPBearerCall(hdr) IN
    IF ~credentials.ok THEN credentials
    ELSE IF ~verify_jwt(credentials.token)
    THEN [ok |-> FALSE, status |-> 403, detail |-> "Invalid token or expired token.", token |-> ""]
    ELSE [ok |-> TRUE, status |-> 200, detail |-> "", token |-> credentials.token]

\* JWTBearer.__call__: the dependency of every protected endpoint.
JWTBearerCall(hdr) ==
    LET credentials == HTTPBearerCall(hdr) IN
    IF ~credentials.ok THEN credentials
    ELSE IF ~(hdr.scheme = "Bearer")
    THEN [ok |-> FALSE, status |-> 403, detail |-> "Invalid authentication scheme.", token |-> ""]
    ELSE IF ~verify_jwt(credentials.token)
    THEN [ok |-> FALSE, status |-> 403, detail |-> "Invalid token or expired token.", token |-> ""]
    ELSE [ok |-> TRUE, status |-> 200, detail |-> "", token |-> credentials.token]

\* The user row JWTBearer looks up for a token: find_unique on
\* int(payload.get("user_id", "")); NoUser when the payload is falsy, int
\* raises or no row matches.
UserOfToken(jwtoken) ==
    LET payload == decodeJWT(jwtoken) IN
    IF ~TruthyDict(payload) THEN NoUser
    ELSE FindUserById(IntOfStr(Get(payload, "user_id", "")))

\* JWTBearer.get_company_id: str(user.company.id), or None.
get_company_id(jwtoken) ==
    LET user == UserOfToken(jwtoken) IN
    IF user.id # 0 /\ user.company # NoneNum THEN StrOfInt(user.company) ELSE None

\* JWTBearer.get_user_ms_code
get_user_ms_code(jwtoken) == UserOfToken(jwtoken).ms_code

\* get_company_config falling back to the first configuration when the
\* company has none.
get_company_config_default(token) ==
    LET company_id == get_company_id(token) IN
    IF TruthyText(company_id) /\ IntOfStr(company_id) \in DOMAIN Configs
    THEN [ok |-> TRUE, config |-> Configs[IntOfStr(company_id)]]
    ELSE [ok |-> TRUE, config |-> Configs[1]]

\* get_company_config of api.py: the configuration, or HTTP 404.
get_company_config(token) ==
    LET company_id == get_company_id(token) IN
    IF TruthyText(company_id) /\ IntOfStr(company_id) \in DOMAIN Configs
    THEN [ok |-> TRUE, config |-> Configs[IntOfStr(company_id)]]
    ELSE [ok |-> FALSE, config |-> EmptyDict]

\* config.get("api-service", "").get(kind, ""): the endpoint URL, "" when
\* the key is absent. hasService is FALSE when there is no api-service (the
\* second get then raises AttributeError).
Endpoint(config, kind) ==
    IF "api_service" \in DOMAIN config
    THEN [hasService |-> TRUE, url |-> Get(config.api_service, kind, "")]
    ELSE [hasService |-> FALSE, url |-> ""]

(***************************************************************************)
(* The third party as the backend sees it through RequestService.          *)
(***************************************************************************)
\* What a call of the third party may come to: the connection fails
\* (raised), or the service answers with a status code. Status 200 is the
\* dummy service's answer; the other codes are a service that refuses.
ThirdPartyOutcomes ==
    {[raised |-> TRUE, status_code |-> 0]}
    \cup [raised : {FALSE}, status_code : {200, 201, 404, 500}]

\* RequestService.post_request: client.post may raise and raise_for_status
\* raises unless the status is 2xx; otherwise the response is returned.
post_request_raises(outcome) ==
    outcome.raised \/ outcome.status_code \notin 200..299

\* The extraction agent's outputs (PDFExtractor.run_agent): lists of
\* {name, barcode, quantity} with an integer quantity, as the output type
\* Order validates them.
Line(barcode, quantity) ==
    [isDict |-> TRUE, name |-> "doc name", barcode |-> barcode, quantity |-> quantity]
Documents ==
    { <<>>,
      <<Line("b1", 2)>>,
      <<Line("b2", 1), Line("bx", 2), Line("b1", 1)>> }

(***************************************************************************)
(* Responses and requests of the backend.                                  *)
(***************************************************************************)
Protected == {"customers", "extract-order", "get_orders", "verify", "cleanup-uploads"}

\* An HTTP response with what the model remembers of its request: ep the
\* endpoint, hdr the Authorization header, sent the third-party URL the
\* request was forwarded to ("" when it called none), cause the branch of
\* the handler that produced it.
Response(ep, hdr, status, detail, cause, sent, data) ==
    [ep |-> ep, hdr |-> hdr, status |-> status, detail |-> detail, cause |-> cause,
     sent |-> sent, data |-> data]

NoResponse ==
    [ep |-> "", hdr |-> NoHeader, status |-> 0, detail |-> "", cause |-> "",
     sent |-> "", data |-> EmptyDict]

\* An extract-order or verify request that has not arrived yet. pc is the
\* handler's position, hdr the Authorization header, order_id the order id a
\* verify request names, sent the third-party URL called, answered the
\* status code the third party answered with (0: no answer), resp the "data"
\* of its answer, order_pk the key of the order row created, and status,
\* detail and cause describe the response once pc is "done"; file_bytes is
\* what the handler read back from its upload, existed what
\* file_path.exists() returned in the finally.
NewRequest ==
    [pc |-> "new", hdr |-> NoHeader, order_id |-> "", sent |-> "", answered |-> 0,
     resp |-> EmptyDict, order_pk |-> 0, status |-> 0, detail |-> "", cause |-> "",
     file_bytes |-> "", existed |-> FALSE]

\* The response of the handler that ran last has been written out.
Delivered == last = NoResponse

Init ==
    /\ orders = <<>>
    /\ items = <<>>
    /\ files = {}
    /\ ereq = [i \in 1..MaxExtract |-> NewRequest]
    /\ vreq = [j \in 1..MaxVerify |-> NewRequest]
    /\ last = NoResponse
    /\ tpCount = 0
    /\ dreq = [ep |-> "", ms_code |-> "", cus_id |-> "", orders |-> <<>>, order_id |-> ""]
    /\ dresp = [status_code |-> 0, json |-> EmptyDict]

(***************************************************************************)
(* Handlers that run without suspending on shared state.                   *)
(***************************************************************************)
\* Any protected endpoint, when the JWTBearer dependency raises: the handler
\* body does not run.
Rejected(ep, hdr) ==
    LET auth == JWTBearerCall(hdr) IN
    /\ Delivered
    /\ ~auth.ok
    /\ last' = Response(ep, hdr, auth.status, auth.detail, "auth", "", EmptyDict)
    /\ UNCHANGED <<orders, items, files, ereq, vreq, tpCount, dreq, dresp>>

\* login without the password comparison.
loginAnyPassword(username, password) ==
    LET user == FindUserByName(username) IN
    /\ Delivered
    /\ IF user.id = 0
       THEN last' = Response("login", NoHeader, 401, "Invalid username or password",
                             "credentials", "",
                             [token |-> "", username |-> username, password |-> password])
       ELSE last' = Response("login", NoHeader, 200, "Login successful", "ok", "",
                             [token |-> signJWT(StrOfInt(user.id)),
                              username |-> username, password |-> password])
    /\ UNCHANGED <<orders, items, files, ereq, vreq, tpCount, dreq, dresp>>

\* POST /login (api.py:111-139). The response's data carries the token
\* issued ("" when none is) and, for reference, the credentials supplied.
login(username, password) ==
    LET user == FindUserByName(username) IN
    /\ Delivered
    /\ IF user.id = 0 \/ user.password # password
       THEN last' = Response("login", NoHeader, 401, "Invalid username or password",
                             "credentials", "",
                             [token |-> "", username |-> username, password |-> password])
       ELSE last' = Response("login", NoHeader, 200, "Login successful", "ok", "",
                             [token |-> signJWT(StrOfInt(user.id)),
                              username |-> username, password |-> password])
    /\ UNCHANGED <<orders, items, files, ereq, vreq, tpCount, dreq, dresp>>

\* GET /customers (api.py:142-170).
get_customers(hdr, outcome) ==
    LET auth == JWTBearerCall(hdr)
        found == get_company_config(auth.token)
        api_service == Endpoint(found.config, "customers")
    IN
    /\ Delivered
    /\ auth.ok
    /\ last' =
         IF ~found.ok
         THEN Response("customers", hdr, 404, "Company configuration not found",
                       "config", "", EmptyDict)
         ELSE IF ~api_service.hasService
         THEN Response("customers", hdr, 400, "API service URL not configured for this company",
                       "service", "", EmptyDict)
         ELSE IF ~TruthyText(api_service.url)
         THEN Response("customers", hdr, 400, "Customers endpoint not configured for this company",
                       "endpoint", "", EmptyDict)
         ELSE IF post_request_raises(outcome)
         THEN Response("customers", hdr, 500, "Internal Server Error",
                       "third party", api_service.url, EmptyDict)
         ELSE Response("customers", hdr, 200, "Customers retrieved successfully",
                       "ok", api_service.url, dummy_get_customers.json)
    /\ UNCHANGED <<orders, items, files, ereq, vreq, tpCount, dreq, dresp>>

\* The rows of items that belong to the order with primary key pk.
RECURSIVE ItemsOf(_, _)
ItemsOf(rows, pk) ==
    IF rows = <<>> THEN <<>>
    ELSE IF Head(rows).order_id = pk THEN <<Head(rows)>> \o ItemsOf(Tail(rows), pk)
    ELSE ItemsOf(Tail(rows), pk)

\* total += item.quantity * item.price over an order's items (api.py:336-337).
RECURSIVE ItemsTotal(_)
ItemsTotal(rows) ==
    IF rows = <<>> THEN 0
    ELSE Head(rows).quantity * Head(rows).price + ItemsTotal(Tail(rows))

\* One order of the answer of get_orders (api.py:320-338).
OrderDict(order) ==
    LET rows == ItemsOf(items, order.id) IN
    [id |-> order.id, order_id |-> order.order_id, status |-> order.status,
     items |-> [k \in 1..Len(rows) |->
                  [id |-> rows[k].id, name |-> rows[k].product_name,
                   barcode |-> rows[k].barcode, quantity |-> rows[k].quantity]],
     total_amount |-> ItemsTotal(rows)]

\* OrdersData without the where clause: the orders of every company.
RECURSIVE OrdersDataAll(_, _)
OrdersDataAll(rows, c) ==
    IF rows = <<>> THEN <<>>
    ELSE <<OrderDict(Head(rows))>> \o OrdersDataAll(Tail(rows), c)

\* client.order.find_many(where={"company_id": c}) mapped to the answer.
RECURSIVE OrdersData(_, _)
OrdersData(rows, c) ==
    IF rows = <<>> THEN <<>>
    ELSE IF Head(rows).company_id = c
         THEN <<OrderDict(Head(rows))>> \o OrdersData(Tail(rows), c)
         ELSE OrdersData(Tail(rows), c)

\* int(company_id) if company_id else 0
CompanyOr0(company_id) == IF TruthyText(company_id) THEN IntOfStr(company_id) ELSE 0

\* POST /get_orders (api.py:296-345).
get_orders(hdr) ==
    LET auth == JWTBearerCall(hdr)
        company_id == get_company_id(auth.token)
    IN
    /\ Delivered
    /\ auth.ok
    /\ last' = Response("get_orders", hdr, 200, "Orders retrieved successfully", "ok", "",
                        [orders |-> OrdersData(orders, CompanyOr0(company_id))])
    /\ UNCHANGED <<orders, items, files, ereq, vreq, tpCount, dreq, dresp>>

\* DELETE /cleanup-uploads (api.py:401-408).
cleanup_uploads(hdr) ==
    /\ Delivered
    /\ JWTBearerCall(hdr).ok
    /\ files' = {}
    /\ last' = Response("cleanup-uploads", hdr, 200,
                        "Upload directory cleaned up successfully", "ok", "", EmptyDict)
    /\ UNCHANGED <<orders, items, ereq, vreq, tpCount, dreq, dresp>>

(***************************************************************************)
(* POST /extract-order (api.py:173-293). The handler suspends after it has *)
(* saved and read back the upload; ExtractRemote is its run over the       *)
(* awaits that touch no shared state of the backend (the user lookups, the *)
(* extraction agent, the third-party call), ExtractSaveOrder and           *)
(* ExtractSaveItems are the two database writes.                           *)
(***************************************************************************)
ContentTypes == {"application/pdf", "image/png", "text/plain", ""}
SUPPORTED_FILE_TYPES == {"application/pdf", "image/png"}

\* Requests get their ids in the order of their arrival.
NextNew(reqs, i) == reqs[i].pc = "new" /\ \A k \in 1..(i - 1) : reqs[k].pc # "new"

\* api.py:188-194: the content type is missing or not supported; nothing has
\* been saved yet.
ExtractBadType(hdr, ctype) ==
    /\ Delivered
    /\ JWTBearerCall(hdr).ok
    /\ ctype \notin SUPPORTED_FILE_TYPES
    /\ last' = IF ctype = ""
               THEN Response("extract-order", hdr, 400, "File content type is missing",
                             "content type", "", EmptyDict)
               ELSE Response("extract-order", hdr, 400, "Only PDF and PNG files are supported",
                             "content type", "", EmptyDict)
    /\ UNCHANGED <<orders, items, files, ereq, vreq, tpCount, dreq, dresp>>

\* open(file_path, "rb").read() (api.py:205-206) with fs the files on disk.
ReadFile(fs, i) == IF i \in fs THEN "content" ELSE "missing"

\* FinalDeletion without the exists() test: unlink raises FileNotFoundError
\* when the file is gone.
FinalDeletionUnchecked(fs, i) ==
    [raised |-> i \notin fs, existed |-> i \in fs, files |-> fs \ {i}]

\* The finally of api.py:260-262 with fs the files on disk: unlink only if
\* the file exists, so it never raises.
FinalDeletion(fs, i) ==
    [raised |-> FALSE, existed |-> i \in fs, files |-> fs \ {i}]

\* api.py:196-206: the upload is saved under a fresh uuid (the request id)
\* and read back, with no suspension in between.
ExtractBegin(i, hdr, ctype) ==
    /\ Delivered
    /\ NextNew(ereq, i)
    /\ JWTBearerCall(hdr).ok
    /\ ctype \in SUPPORTED_FILE_TYPES
    /\ files' = files \cup {i}
    /\ ereq' = [ereq EXCEPT ![i] =
                  [NewRequest EXCEPT !.pc = "remote", !.hdr = hdr,
                                     !.file_bytes = ReadFile(files', i)]]
    /\ UNCHANGED <<orders, items, vreq, last, tpCount, dreq, dresp>>

\* ExtractFail without the finally: the file stays.
ExtractFailKeepsFile(i, cause, sent, answered) ==
    /\ ereq' = [ereq EXCEPT ![i] =
                  [@ EXCEPT !.pc = "done", !.status = 500,
                            !.detail = "An error occurred during order extraction",
                            !.cause = cause, !.sent = sent, !.answered = answered,
                            !.resp = EmptyDict, !.existed = i \in files]]
    /\ UNCHANGED files

\* The except and finally of api.py:254-262: every exception raised in the
\* try, an HTTPException included, is answered with status 500, and the
\* request's file is deleted if it still exists. An exception raised in the
\* finally would replace the HTTPException.
ExtractFail(i, cause, sent, answered) ==
    LET deletion == FinalDeletion(files, i) IN
    /\ ereq' = [ereq EXCEPT ![i] =
                  [@ EXCEPT !.pc = "done", !.status = 500,
                            !.detail = IF deletion.raised THEN "Internal Server Error"
                                       ELSE "An error occurred during order extraction",
                            !.cause = cause, !.sent = sent, !.answered = answered,
                            !.resp = EmptyDict, !.existed = deletion.existed]]
    /\ files' = deletion.files

\* The return and finally of api.py:249-262. An exception raised in the
\* finally would replace the return value.
ExtractSucceed(i) ==
    LET deletion == FinalDeletion(files, i) IN
    /\ ereq' = [ereq EXCEPT ![i] =
                  [@ EXCEPT !.pc = "done",
                            !.status = IF deletion.raised THEN 500 ELSE 200,
                            !.detail = IF deletion.raised THEN "Internal Server Error"
                                       ELSE "PDF/PNG extraction successful",
                            !.cause = IF deletion.raised THEN "unlink" ELSE "ok",
                            !.existed = deletion.existed]]
    /\ files' = deletion.files

\* What the extraction agent may return: it raises, or it returns a list.
AgentOutcomes ==
    {[raised |-> TRUE, orders |-> <<>>]} \cup [raised : {FALSE}, orders : Documents]

\* AnswerAccepted without the comparison with 200: any answer that
\* raise_for_status lets through is accepted.
AnswerAcceptedAny2xx(outcome) == ~post_request_raises(outcome)

\* Whether the handler goes on to save after the third party's answer
\* (api.py:237-241).
AnswerAccepted(outcome) == ~post_request_raises(outcome) /\ outcome.status_code = 200

\* api.py:208-244.
ExtractRemote(i, agent, outcome, rnd) ==
    LET token == ereq[i].hdr.credentials
        found == get_company_config(token)
        api_service == Endpoint(found.config, "order")
        ms_code == get_user_ms_code(token)
        data == [ms_code |-> Str(ms_code), cus_id |-> "C001", orders |-> agent.orders]
        result == add_order(data, rnd, Uuid(tpCount + 1)).json
    IN
    /\ Delivered
    /\ ereq[i].pc = "remote"
    /\ IF agent.raised
       THEN ExtractFail(i, "agent", "", 0) /\ UNCHANGED tpCount
       ELSE IF ~found.ok
       THEN ExtractFail(i, "config", "", 0) /\ UNCHANGED tpCount
       ELSE IF ~api_service.hasService
       THEN ExtractFail(i, "service", "", 0) /\ UNCHANGED tpCount
       ELSE IF ~TruthyText(api_service.url)
       THEN ExtractFail(i, "endpoint", "", 0) /\ UNCHANGED tpCount
       ELSE IF post_request_raises(outcome)
       THEN ExtractFail(i, "third party raised", api_service.url, 0) /\ UNCHANGED tpCount
       ELSE IF ~AnswerAccepted(outcome)
       THEN ExtractFail(i, "third party status", api_service.url, outcome.status_code) /\ UNCHANGED tpCount
       ELSE /\ ereq' = [ereq EXCEPT ![i] =
                          [@ EXCEPT !.pc = "save_order", !.sent = api_service.url,
                                    !.answered = outcome.status_code,
                                    !.resp = Get(result, "data", EmptyDict)]]
            /\ tpCount' = tpCount + 1
            /\ UNCHANGED files
    /\ UNCHANGED <<orders, items, vreq, last, dreq, dresp>>

\* The row of client.order.create (api.py:269-276). by records the request
\* that created the row; status is the column's default.
OrderRow(i, pk, company_id, ms_code, resp) ==
    [id |-> pk,
     order_id |-> Str(Get(resp, "order_id", "")),
     company_id |-> CompanyOr0(company_id),
     user_id |-> IF TruthyText(ms_code) THEN Str(ms_code) ELSE "0",
     total_amount |-> Get(resp, "total_amount", 0),
     status |-> "PENDING",
     by |-> i]

\* item_data of api.py:282-288.
ItemData(pk, item) ==
    [order_id |-> pk,
     product_name |-> Get(item, "name", ""),
     barcode |-> Get(item, "barcode", ""),
     quantity |-> IntOr0(Get(item, "quantity", 0)),
     price |-> FloatOr0(Get(item, "price", 0))]

\* ItemsToCreate without the status test: every line becomes an item.
RECURSIVE ItemsToCreateAll(_, _)
ItemsToCreateAll(pk, orders_list) ==
    IF orders_list = <<>> THEN <<>>
    ELSE <<[order_id |-> pk,
            product_name |-> Str(Get(Head(orders_list), "name", "")),
            barcode |-> Get(Head(orders_list), "barcode", ""),
            quantity |-> IntOr0(Get(Head(orders_list), "quantity", 0)),
            price |-> FloatOr0(Get(Head(orders_list), "price", 0))]>>
         \o ItemsToCreateAll(pk, Tail(orders_list))

\* items_to_create of api.py:280-290.
RECURSIVE ItemsToCreate(_, _)
ItemsToCreate(pk, orders_list) ==
    IF orders_list = <<>> THEN <<>>
    ELSE IF Get(Head(orders_list), "status", "none") = "added"
         THEN <<ItemData(pk, Head(orders_list))>> \o ItemsToCreate(pk, Tail(orders_list))
         ELSE ItemsToCreate(pk, Tail(orders_list))

\* client.item.create_many: the rows get the next primary keys.
CreateMany(rows, data) ==
    rows \o [k \in 1..Len(data) |->
               [id |-> Len(rows) + k, order_id |-> data[k].order_id,
                product_name |-> data[k].product_name, barcode |-> data[k].barcode,
                quantity |-> data[k].quantity, price |-> data[k].price]]

\* api.py:247 and 267-279: the order row is created, or the database raises.
ExtractSaveOrder(i, dbOk) ==
    LET token == ereq[i].hdr.credentials
        resp == ereq[i].resp
        pk == Len(orders) + 1
        row == OrderRow(i, pk, get_company_id(token), get_user_ms_code(token), resp)
    IN
    /\ Delivered
    /\ ereq[i].pc = "save_order"
    /\ IF ~dbOk
       THEN ExtractFail(i, "database", ereq[i].sent, ereq[i].answered) /\ UNCHANGED orders
       ELSE /\ orders' = Append(orders, row)
            /\ IF ItemsToCreate(pk, Get(resp, "orders", <<>>)) = <<>>
               THEN ExtractSucceed(i)
               ELSE /\ ereq' = [ereq EXCEPT ![i] =
                                  [@ EXCEPT !.pc = "save_items", !.order_pk = pk]]
                    /\ UNCHANGED files
    /\ UNCHANGED <<items, vreq, last, tpCount, dreq, dresp>>

\* api.py:292-293: the item rows are created, or the database raises.
ExtractSaveItems(i, dbOk) ==
    LET data == ItemsToCreate(ereq[i].order_pk, Get(ereq[i].resp, "orders", <<>>)) IN
    /\ Delivered
    /\ ereq[i].pc = "save_items"
    /\ IF ~dbOk
       THEN ExtractFail(i, "database", ereq[i].sent, ereq[i].answered) /\ UNCHANGED items
       ELSE items' = CreateMany(items, data) /\ ExtractSucceed(i)
    /\ UNCHANGED <<orders, vreq, last, tpCount, dreq, dresp>>

(***************************************************************************)
(* POST /verify (api.py:348-398).                                          *)
(***************************************************************************)
\* The order ids a client may ask to verify: those the third party has
\* issued, and one it has not.
VerifyOrderIds == {Uuid(k) : k \in 1..tpCount} \cup {"unknown-order"}

\* api.py:363-372: no configuration or no verify endpoint.
VerifyRefused(hdr) ==
    LET auth == JWTBearerCall(hdr)
        found == get_company_config(auth.token)
        api_service == Endpoint(found.config, "verify")
    IN
    /\ Delivered
    /\ auth.ok
    /\ ~found.ok \/ ~api_service.hasService \/ ~TruthyText(api_service.url)
    /\ last' =
         IF ~found.ok
         THEN Response("verify", hdr, 404, "Company configuration not found",
                       "config", "", EmptyDict)
         ELSE IF ~api_service.hasService
         THEN Response("verify", hdr, 500, "Internal Server Error", "service", "", EmptyDict)
         ELSE Response("verify", hdr, 400, "Verify endpoint not configured for this company",
                       "endpoint", "", EmptyDict)
    /\ UNCHANGED <<orders, items, files, ereq, vreq, tpCount, dreq, dresp>>

\* api.py:363-378 up to the await of the third-party call.
VerifyBegin(j, hdr, order_id) ==
    LET auth == JWTBearerCall(hdr)
        found == get_company_config(auth.token)
        api_service == Endpoint(found.config, "verify")
    IN
    /\ Delivered
    /\ NextNew(vreq, j)
    /\ auth.ok
    /\ found.ok /\ api_service.hasService /\ TruthyText(api_service.url)
    /\ vreq' = [vreq EXCEPT ![j] =
                  [NewRequest EXCEPT !.pc = "wait", !.hdr = hdr, !.order_id = order_id,
                                     !.sent = api_service.url]]
    /\ UNCHANGED <<orders, items, files, ereq, last, tpCount, dreq, dresp>>

\* UpdateMany without its where clause: every order is completed.
UpdateManyAll(rows, order_id) ==
    [k \in 1..Len(rows) |-> [rows[k] EXCEPT !.status = "COMPLETED"]]

\* client.order.update_many(where={"order_id": order_id},
\*                          data={"status": COMPLETED}) (api.py:387-390).
UpdateMany(rows, order_id) ==
    [k \in 1..Len(rows) |->
        IF rows[k].order_id = order_id THEN [rows[k] EXCEPT !.status = "COMPLETED"]
        ELSE rows[k]]

\* api.py:375-398 from the third party's answer on.
VerifyFinish(j, outcome) ==
    LET result == dummy_verify_order(vreq[j].order_id).json IN
    /\ Delivered
    /\ vreq[j].pc = "wait"
    /\ IF post_request_raises(outcome)
       THEN /\ vreq' = [vreq EXCEPT ![j] =
                          [@ EXCEPT !.pc = "done", !.status = 500,
                                    !.detail = "Internal Server Error",
                                    !.cause = "third party raised"]]
            /\ UNCHANGED orders
       ELSE IF ~AnswerAccepted(outcome)
       THEN /\ vreq' = [vreq EXCEPT ![j] =
                          [@ EXCEPT !.pc = "done", !.status = 500,
                                    !.detail = "Failed to verify order extraction",
                                    !.answered = outcome.status_code,
                                    !.cause = "third party status"]]
            /\ UNCHANGED orders
       ELSE /\ orders' = UpdateMany(orders, vreq[j].order_id)
            /\ vreq' = [vreq EXCEPT ![j] =
                          [@ EXCEPT !.pc = "done", !.status = 200,
                                    !.detail = "Order extraction verified successfully",
                                    !.cause = "ok", !.answered = outcome.status_code,
                                    !.resp = Get(result, "data", EmptyDict)]]
    /\ UNCHANGED <<items, files, ereq, last, tpCount, dreq, dresp>>

\* The framework writes the response out; the event loop then runs the next
\* handler step.
Deliver ==
    /\ last # NoResponse
    /\ last' = NoResponse
    /\ UNCHANGED <<orders, items, files, ereq, vreq, tpCount, dreq, dresp>>

(***************************************************************************)
(* The backend's specification.                                            *)
(***************************************************************************)
Next ==
    \/ \E ep \in Protected, hdr \in Headers : Rejected(ep, hdr)
    \/ \E username \in {"alice", "bob", "zed"}, password \in {"pw1", "pw2"} :
          login(username, password)
    \/ \E hdr \in Headers, outcome \in ThirdPartyOutcomes : get_customers(hdr, outcome)
    \/ \E hdr \in Headers : get_orders(hdr)
    \/ \E hdr \in Headers : cleanup_uploads(hdr)
    \/ \E hdr \in Headers, ctype \in ContentTypes : ExtractBadType(hdr, ctype)
    \/ \E i \in 1..MaxExtract, hdr \in Headers, ctype \in ContentTypes :
          ExtractBegin(i, hdr, ctype)
    \/ \E i \in 1..MaxExtract, agent \in AgentOutcomes, outcome \in ThirdPartyOutcomes :
          \E rnd \in [1..Len(agent.orders) -> BOOLEAN] : ExtractRemote(i, agent, outcome, rnd)
    \/ \E i \in 1..MaxExtract, dbOk \in BOOLEAN : ExtractSaveOrder(i, dbOk)
    \/ \E i \in 1..MaxExtract, dbOk \in BOOLEAN : ExtractSaveItems(i, dbOk)
    \/ \E hdr \in Headers : VerifyRefused(hdr)
    \/ \E j \in 1..MaxVerify, hdr \in Headers, order_id \in VerifyOrderIds :
          VerifyBegin(j, hdr, order_id)
    \/ \E j \in 1..MaxVerify, outcome \in ThirdPartyOutcomes : VerifyFinish(j, outcome)
    \/ Deliver

Spec == Init /\ [][Next]_vars

(***************************************************************************)
(* The dummy service on its own: a client posts any one request, and the   *)
(* handler of its endpoint answers it.                                     *)
(***************************************************************************)
DummyRequests ==
    [ep : {"order"}, ms_code : {"MS1"}, cus_id : {"C001"},
     orders : SeqsUpTo(DummyLines, MaxLines), order_id : {""}]
    \cup [ep : {"verify"}, ms_code : {""}, cus_id : {""}, orders : {<<>>},
          order_id : {Uuid(1), "unknown-order"}]
    \cup [ep : {"customers"}, ms_code : {""}, cus_id : {""}, orders : {<<>>},
          order_id : {""}]

Unanswered == [status_code |-> 0, json |-> EmptyDict]

InitDummy ==
    /\ orders = <<>>
    /\ items = <<>>
    /\ files = {}
    /\ ereq = [i \in 1..MaxExtract |-> NewRequest]
    /\ vreq = [j \in 1..MaxVerify |-> NewRequest]
    /\ last = NoResponse
    /\ tpCount = 0
    /\ dreq \in DummyRequests
    /\ dresp = Unanswered

DummyAddOrder(rnd) ==
    /\ dreq.ep = "order"
    /\ dresp = Unanswered
    /\ dresp' = add_order(dreq, rnd, Uuid(1))
    /\ UNCHANGED <<dreq, orders, items, files, ereq, vreq, last, tpCount>>

DummyVerify ==
    /\ dreq.ep = "verify"
    /\ dresp = Unanswered
    /\ dresp' = dummy_verify_order(dreq.order_id)
    /\ UNCHANGED <<dreq, orders, items, files, ereq, vreq, last, tpCount>>

DummyCustomers ==
    /\ dreq.ep = "customers"
    /\ dresp = Unanswered
    /\ dresp' = dummy_get_customers
    /\ UNCHANGED <<dreq, orders, items, files, ereq, vreq, last, tpCount>>

DummyNext ==
    \/ \E rnd \in [1..Len(dreq.orders) -> BOOLEAN] : DummyAddOrder(rnd)
    \/ DummyVerify
    \/ DummyCustomers

SpecDummy == InitDummy /\ [][DummyNext]_vars

(***************************************************************************)
(* The backend under tenants' traffic: several extract-order requests by   *)
(* users of different companies (and by a user without company), with      *)
(* /get_orders requests in between. The agent and the third party answer,  *)
(* and the database accepts its writes.                                    *)
(***************************************************************************)
\* extract-order requests of the tenants
MaxTenantExtract == 2

\* The callers: a user of company 1, a user of company 2, a user without
\* company.
TenantHeaders == [scheme : {"Bearer"}, credentials : {"tok-1", "tok-2", "tok-5"}]

\* The third party answers with status 200.
Answer200 == [raised |-> FALSE, status_code |-> 200]

\* What the agent extracts from the tenants' documents.
TenantDocuments == {<<Line("b1", 2)>>, <<Line("b2", 1), Line("bx", 2)>>}

InitTenants ==
    /\ orders = <<>>
    /\ items = <<>>
    /\ files = {}
    /\ ereq = [i \in 1..MaxTenantExtract |-> NewRequest]
    /\ vreq = [j \in 1..MaxVerify |-> NewRequest]
    /\ last = NoResponse
    /\ tpCount = 0
    /\ dreq = [ep |-> "", ms_code |-> "", cus_id |-> "", orders |-> <<>>, order_id |-> ""]
    /\ dresp = [status_code |-> 0, json |-> EmptyDict]

NextTenants ==
    \/ \E hdr \in TenantHeaders : get_orders(hdr)
    \/ \E i \in 1..MaxTenantExtract, hdr \in TenantHeaders :
          ExtractBegin(i, hdr, "application/pdf")
    \/ \E i \in 1..MaxTenantExtract, doc \in TenantDocuments :
          \E rnd \in [1..Len(doc) -> BOOLEAN] :
             ExtractRemote(i, [raised |-> FALSE, orders |-> doc], Answer200, rnd)
    \/ \E i \in 1..MaxTenantExtract : ExtractSaveOrder(i, TRUE)
    \/ \E i \in 1..MaxTenantExtract : ExtractSaveItems(i, TRUE)
    \/ Deliver

SpecTenants == InitTenants /\ [][NextTenants]_vars

(***************************************************************************)
(* Properties.                                                             *)
(***************************************************************************)
\* A header that carries a bearer token which decodes to a payload.
CarriesToken(hdr) == hdr.scheme = "Bearer" /\ DOMAIN decodeJWT(hdr.credentials) # {}

\* The user a header's token identifies, read from the tables directly.
TokenUserId(hdr) == IntOfStr(decodeJWT(hdr.credentials).user_id)

\* Whether that user exists, has a company, and the company a configuration.
HasCompanyConfig(hdr) ==
    /\ TokenUserId(hdr) \in DOMAIN Users
    /\ Users[TokenUserId(hdr)].company \in DOMAIN Configs

\* The endpoint of kind k in the configuration of that user's company.
CompanyEndpoint(hdr, k) == Configs[Users[TokenUserId(hdr)].company].api_service[k]

\* The requests whose handler has started / has answered.
Started(reqs) == {i \in DOMAIN reqs : reqs[i].pc # "new"}
Completed(reqs) == {i \in DOMAIN reqs : reqs[i].pc = "done"}

\* A handler that does not suspend has just answered.
Answers == last = NoResponse /\ last' # NoResponse

\* The order rows / item rows a request or an order accounts for.
RowsBy(i) == SelectSeq(orders, LAMBDA r : r.by = i)
ItemRows(pk) == SelectSeq(items, LAMBDA r : r.order_id = pk)

----------------------------------------------------------------------------
\* C1: on every protected endpoint a request without a bearer token that
\* decodes to a payload is answered 403, and that request sends nothing to
\* the third party, creates or updates no order or item, and writes or
\* deletes no file; no extract-order or verify handler ever runs for it.
C1_Unauthenticated ==
    /\ [](\A i \in Started(ereq) : CarriesToken(ereq[i].hdr))
    /\ [](\A j \in Started(vreq) : CarriesToken(vreq[j].hdr))
    /\ [][(Answers /\ last'.ep \in Protected /\ ~CarriesToken(last'.hdr))
            => /\ last'.status = 403
               /\ last'.sent = ""
               /\ UNCHANGED <<orders, items, files, ereq, vreq, tpCount>>]_vars

\* A cleanup request without a token is refused while an upload is on disk.
C1_Witness ==
    /\ last.ep = "cleanup-uploads" /\ last.hdr = NoHeader /\ last.status = 403
    /\ files # {}

----------------------------------------------------------------------------
\* C2: an order row exists only if the third party answered the request
\* that created it with status 200; a request that ends because the agent
\* failed, the configuration or order endpoint is missing, or the
\* third-party call raised or answered another status, ends with an error
\* and leaves the orders and items as they were.
RemoteCauses ==
    {"agent", "config", "service", "endpoint", "third party raised", "third party status"}

C2_SaveOnlyAfter200 ==
    /\ [](\A k \in DOMAIN orders : ereq[orders[k].by].answered = 200)
    /\ [](\A i \in Completed(ereq) :
            ereq[i].cause \in RemoteCauses => ereq[i].status >= 400 /\ RowsBy(i) = <<>>)
    /\ [][\A i \in DOMAIN ereq :
            (ereq[i].pc # "done" /\ ereq'[i].pc = "done" /\ ereq'[i].cause \in RemoteCauses)
               => orders' = orders /\ items' = items]_vars

\* The third party answered 201, and the request ended with no order stored.
C2_Witness ==
    \E i \in Completed(ereq) :
        /\ ereq[i].cause = "third party status" /\ ereq[i].answered = 201
        /\ orders = <<>>

----------------------------------------------------------------------------
\* C3: after a successful extract-order there is exactly one order row of
\* that request, it carries the order_id of the third party's answer, and
\* its item rows are, in order, the lines of the answer with status "added",
\* with each line's name, barcode, quantity and price.
AddedLines(resp) == SelectSeq(resp.orders, LAMBDA l : l.status = "added")

C3_OrderAndItems ==
    \A i \in Completed(ereq) :
        ereq[i].status = 200 =>
            /\ Len(RowsBy(i)) = 1
            /\ RowsBy(i)[1].order_id = ereq[i].resp.order_id
            /\ LET rows == ItemRows(RowsBy(i)[1].id)
                   added == AddedLines(ereq[i].resp)
               IN  /\ Len(rows) = Len(added)
                   /\ \A k \in 1..Len(rows) :
                         /\ rows[k].product_name = added[k].name
                         /\ rows[k].barcode = added[k].barcode
                         /\ rows[k].quantity = added[k].quantity
                         /\ rows[k].price = added[k].price

\* A success whose answer had three lines, two of them added.
C3_Witness ==
    \E i \in Completed(ereq) :
        /\ ereq[i].status = 200
        /\ Len(ereq[i].resp.orders) = 3
        /\ Len(items) = 2

----------------------------------------------------------------------------
\* C4: the total_amount of a stored order equals the total the third party
\* reported in its answer for that order.
C4_TotalAmount ==
    \A k \in DOMAIN orders :
        LET r == ereq[orders[k].by] IN
        "total_price" \in DOMAIN r.resp => orders[k].total_amount = r.resp.total_price

----------------------------------------------------------------------------
\* C5: for a request of well-formed lines add_order answers one result line
\* per request line, in order, with the line's barcode and quantity; a
\* catalog barcode gets "added" or "not available" with the catalog's
\* material id, name and price, any other barcode gets "not found" with
\* null material id, name and price.
AnsweredOrder == dreq.ep = "order" /\ dresp # Unanswered

C5_ResultLines ==
    (AnsweredOrder /\ \A n \in DOMAIN dreq.orders : WellFormedLine(dreq.orders[n])) =>
        LET result == dresp.json.data.orders IN
        /\ Len(result) = Len(dreq.orders)
        /\ \A n \in DOMAIN result :
              /\ result[n].barcode = dreq.orders[n].barcode
              /\ result[n].quantity = dreq.orders[n].quantity
              /\ IF result[n].barcode \in DOMAIN Products
                 THEN /\ result[n].status \in {"added", "not available"}
                      /\ result[n].material_id = Products[result[n].barcode].MaterialID
                      /\ result[n].name = Products[result[n].barcode].ProductName
                      /\ result[n].price = Products[result[n].barcode].CurrentPrice
                 ELSE /\ result[n].status = "not found"
                      /\ result[n].material_id = None
                      /\ result[n].name = None
                      /\ result[n].price = NoneNum

\* An answer with an unavailable line of quantity 2 and a line not found.
C5_Witness ==
    /\ AnsweredOrder
    /\ Len(dresp.json.data.orders) = 2
    /\ dresp.json.data.orders[1].status = "not available"
    /\ dresp.json.data.orders[1].quantity = 2
    /\ dresp.json.data.orders[2].status = "not found"
    /\ \A n \in DOMAIN dreq.orders : WellFormedLine(dreq.orders[n])

----------------------------------------------------------------------------
\* C6: the total_price of add_order's answer is the sum of price times
\* quantity over the answer's lines with status "added", 0 when there is none.
RECURSIVE SumAdded(_, _)
SumAdded(result, n) ==
    IF n = 0 THEN 0
    ELSE SumAdded(result, n - 1)
         + (IF result[n].status = "added" THEN result[n].price * result[n].quantity ELSE 0)

C6_TotalPrice ==
    AnsweredOrder =>
        dresp.json.data.total_price
            = SumAdded(dresp.json.data.orders, Len(dresp.json.data.orders))

\* An answer with an added and an unavailable line.
C6_Witness ==
    /\ AnsweredOrder
    /\ Len(dresp.json.data.orders) = 2
    /\ dresp.json.data.orders[1].status = "added"
    /\ dresp.json.data.orders[2].status = "not available"
    /\ dresp.json.data.total_price > 0

----------------------------------------------------------------------------
\* C7: a third-party request made for a token goes to the endpoint that the
\* configuration of the token's user's company lists for it; when the user
\* has no company or the company no configuration, /customers and /verify
\* answer 404 "Company configuration not found" and call no third party.
C7_OwnEndpoint ==
    /\ \A i \in Started(ereq) :
          ereq[i].sent # "" =>
              HasCompanyConfig(ereq[i].hdr) /\ ereq[i].sent = CompanyEndpoint(ereq[i].hdr, "order")
    /\ \A j \in Started(vreq) :
          /\ HasCompanyConfig(vreq[j].hdr)
          /\ vreq[j].sent = CompanyEndpoint(vreq[j].hdr, "verify")
    /\ (last.ep = "customers" /\ last.sent # "") =>
          HasCompanyConfig(last.hdr) /\ last.sent = CompanyEndpoint(last.hdr, "customers")
    /\ (last.ep \in {"customers", "verify"} /\ CarriesToken(last.hdr)
        /\ ~HasCompanyConfig(last.hdr)) =>
          /\ last.status = 404
          /\ last.detail = "Company configuration not found"
          /\ last.sent = ""

\* The second tenant's order went to its own endpoint, and a user whose
\* company has no configuration was answered 404 on /customers.
C7_Witness ==
    /\ \E i \in Started(ereq) : ereq[i].sent = "http://tenant2/order"
    /\ last.ep = "customers" /\ last.status = 404

----------------------------------------------------------------------------
\* C8: the uploads directory holds no file of an extract-order request that
\* has completed, however it completed; its files are those of requests
\* still being handled.
C8_NoFileLeft ==
    \A f \in files : f \in Started(ereq) \ Completed(ereq)

\* A request that failed on the database has completed and its file is gone.
C8_Witness ==
    \E i \in Completed(ereq) : ereq[i].cause = "database" /\ i \notin files

----------------------------------------------------------------------------
\* C9: login issues a token exactly when a user with the given name exists
\* and its stored password is the one supplied, and the token's payload
\* carries that user's id; otherwise it answers 401 "Invalid username or
\* password" and issues no token.
C9_Login ==
    last.ep = "login" =>
        LET matching == {id \in DOMAIN Users :
                            /\ Users[id].name = last.data.username
                            /\ Users[id].password = last.data.password}
        IN  IF matching # {}
            THEN /\ last.status = 200
                 /\ last.data.token # ""
                 /\ \E id \in matching : decodeJWT(last.data.token).user_id = StrOfInt(id)
            ELSE /\ last.status = 401
                 /\ last.detail = "Invalid username or password"
                 /\ last.data.token = ""

\* A token was issued.
C9_Witness == last.ep = "login" /\ last.status = 200 /\ last.data.username = "bob"

----------------------------------------------------------------------------
\* C10: an order's status becomes COMPLETED only in the step in which a
\* verify request naming its order_id gets the third party's answer 200,
\* and that step completes every order of that order_id; a verify request
\* that ends otherwise changes no order.
C10_VerifyAfter200 ==
    [][/\ \A k \in DOMAIN orders :
            orders'[k].status # orders[k].status =>
                /\ orders'[k].status = "COMPLETED"
                /\ \E j \in DOMAIN vreq :
                      /\ vreq[j].pc = "wait" /\ vreq'[j].pc = "done"
                      /\ vreq'[j].answered = 200
                      /\ vreq[j].order_id = orders[k].order_id
       /\ \A j \in DOMAIN vreq :
            (vreq[j].pc = "wait" /\ vreq'[j].pc = "done") =>
                IF vreq'[j].status = 200
                THEN \A k \in DOMAIN orders :
                        orders[k].order_id = vreq[j].order_id
                            => orders'[k].status = "COMPLETED"
                ELSE orders' = orders]_vars

\* A verify request answered 200 has completed the order it named.
C10_Witness ==
    \E k \in DOMAIN orders, j \in Completed(vreq) :
        /\ orders[k].status = "COMPLETED"
        /\ vreq[j].answered = 200
        /\ vreq[j].order_id = orders[k].order_id

----------------------------------------------------------------------------
\* C11: the answer of /get_orders lists exactly the stored orders whose
\* company_id is the company of the calling token's user, in stored order,
\* each with its stored items; every order listed was created by a request
\* of a user of that company; a caller without company gets the empty list.
CompanyOfHeader(hdr) == Users[TokenUserId(hdr)].company

C11_OwnOrdersOnly ==
    (last.ep = "get_orders" /\ last.status = 200) =>
        LET company == CompanyOfHeader(last.hdr)
            mine == SelectSeq(orders, LAMBDA r : company # NoneNum /\ r.company_id = company)
            got == last.data.orders
        IN  /\ Len(got) = Len(mine)
            /\ \A k \in 1..Len(got) :
                  /\ got[k].id = mine[k].id
                  /\ got[k].order_id = mine[k].order_id
                  /\ CompanyOfHeader(ereq[mine[k].by].hdr) = company
                  /\ LET rows == ItemRows(mine[k].id) IN
                     /\ Len(got[k].items) = Len(rows)
                     /\ \A n \in 1..Len(rows) :
                           /\ got[k].items[n].id = rows[n].id
                           /\ got[k].items[n].name = rows[n].product_name
                           /\ got[k].items[n].barcode = rows[n].barcode
                           /\ got[k].items[n].quantity = rows[n].quantity
            /\ company = NoneNum => got = <<>>

\* Two orders of two companies are stored, and the user of company 1 is
\* answered with the one of company 1 and its item.
C11_Witness ==
    /\ last.ep = "get_orders" /\ last.status = 200
    /\ CompanyOfHeader(last.hdr) = 1
    /\ \E a, b \in DOMAIN orders : orders[a].company_id = 1 /\ orders[b].company_id = 2
    /\ Len(last.data.orders) = 1
    /\ Len(last.data.orders[1].items) = 1

----------------------------------------------------------------------------
\* C12: every order in the answer of /get_orders has as total_amount the
\* sum of quantity times price over its stored items, and that sum is the
\* total_price the third party reported when the order was placed.
RECURSIVE SumRows(_, _)
SumRows(rows, n) ==
    IF n = 0 THEN 0 ELSE SumRows(rows, n - 1) + rows[n].quantity * rows[n].price

C12_ListedTotal ==
    (last.ep = "get_orders" /\ last.status = 200) =>
        \A k \in DOMAIN last.data.orders :
            LET listed == last.data.orders[k]
                rows == ItemRows(listed.id)
                placed == ereq[orders[listed.id].by].resp
            IN  /\ listed.total_amount = SumRows(rows, Len(rows))
                /\ "total_price" \in DOMAIN placed => listed.total_amount = placed.total_price

----------------------------------------------------------------------------
\* C13: an extract-order request with a supported file whose agent run
\* succeeded is answered 404 "Company configuration not found" when the
\* caller's company has no configuration entry, and 400 "Order endpoint not
\* configured for this company" when the entry lists no order endpoint.
C13_ExtractStatuses ==
    \A i \in Completed(ereq) :
        ereq[i].cause # "agent" =>
            /\ ~HasCompanyConfig(ereq[i].hdr) =>
                  /\ ereq[i].status = 404
                  /\ ereq[i].detail = "Company configuration not found"
            /\ (/\ HasCompanyConfig(ereq[i].hdr)
                /\ "order" \notin DOMAIN Configs[CompanyOfHeader(ereq[i].hdr)].api_service) =>
                  /\ ereq[i].status = 400
                  /\ ereq[i].detail = "Order endpoint not configured for this company"

----------------------------------------------------------------------------
\* C14: whenever the status of a stored order changes, the step is the
\* completion of a verify request whose caller's company is the order's
\* company_id.
C14_VerifyOwnCompany ==
    [][\A k \in DOMAIN orders :
          orders'[k].status # orders[k].status =>
              \E j \in DOMAIN vreq :
                  /\ vreq[j].pc = "wait" /\ vreq'[j].pc = "done"
                  /\ CompanyOfHeader(vreq[j].hdr) = orders[k].company_id]_vars

----------------------------------------------------------------------------
\* C15: with cleanup-uploads and extract-order requests interleaved, every
\* extract-order request reads back the file it saved; a cleanup changes no
\* extract-order request; and a request ends with an error only for one of
\* the causes of its own try block, never because its file is gone: a
\* request that the third party answered 200 and whose database writes
\* succeeded is answered 200.
C15_CleanupHarmless ==
    /\ [](\A i \in Started(ereq) : ereq[i].file_bytes = "content")
    /\ [](\A i \in Completed(ereq) :
            /\ ereq[i].status = 200 \/ ereq[i].cause \in RemoteCauses \cup {"database"}
            /\ (ereq[i].answered = 200 /\ ereq[i].cause # "database") => ereq[i].status = 200)
    /\ [][(Answers /\ last'.ep = "cleanup-uploads" /\ last'.status = 200)
            => ereq' = ereq /\ files' = {}]_vars

\* A cleanup deleted the file of a request in flight, and the request was
\* answered 200 all the same.
C15_Witness ==
    \E i \in Completed(ereq) : ereq[i].status = 200 /\ ~ereq[i].existed

====
